---- MODULE Spec2Model ----
(***************************************************************************)
(* Quadratic Knapsack solvers of src/algorithms.py and the profit         *)
(* validator of src/utils.py.                                              *)
(*                                                                         *)
(* An instance is (weights, profits, capacity).  Python lists are          *)
(* modelled as functions over 0..len-1, so every index is the source's     *)
(* index.  A behaviour of Spec is the body of the loop of                  *)
(* test_qkp_algorithms (src/tests.py:206-208): classical_dp_qkp, then      *)
(* dp_heuristic_algo2, then dp_heuristic_algo3, on one instance, one DP    *)
(* cell per step.  A behaviour of SpecValidator is one call of             *)
(* compute_profit_and_items (src/tests.py:202) on a candidate set.         *)
(*                                                                         *)
(* Numbers: profits are integers; a DP value of the heuristics is either   *)
(* a number or numpy's -inf, the validator's profit a number or None.      *)
(* These are tagged records [tag, v].  float(x) of an integer and the      *)
(* float64 cells of numpy compare equal to the integer they hold, so a     *)
(* number is modelled by its integer value.                                *)
(*                                                                         *)
(* Iterating a Python set has no order fixed by the language (CPython      *)
(* orders colliding hashes by insertion history), so the validator takes   *)
(* the enumeration of the candidate set as a sequence without repeats.     *)
(***************************************************************************)
EXTENDS Integers, Sequences, FiniteSets, TLC

\* ---------------------------------------------------------------- bounds
MaxN == 2
MaxWeight == 2
MaxCapacity == 3
MaxProfit == 2

ProfitValues == (0 - MaxProfit)..MaxProfit

VARIABLES weights, profits, capacity,
          pc, k, r,
          dp, tracker,
          dp2, selected_items,
          dp3, item_inclusion,
          result, val

vars == <<weights, profits, capacity, pc, k, r, dp, tracker,
          dp2, selected_items, dp3, item_inclusion, result, val>>

\* ------------------------------------------------------------ values
Num(x) == [tag |-> "num", v |-> x]
NegInf == [tag |-> "-inf", v |-> 0]
None == [tag |-> "None", v |-> 0]

\* a > b on numpy floats that may be -inf
Gt(a, b) == /\ a.tag = "num"
            /\ (b.tag = "-inf" \/ a.v > b.v)

\* len() of a Python list
len(l) == Cardinality(DOMAIN l)

\* sum(weights[i] for i in S)
RECURSIVE total_weight(_, _)
total_weight(w, S) ==
    IF S = {} THEN 0
    ELSE LET i == CHOOSE x \in S : TRUE
         IN  w[i] + total_weight(w, S \ {i})

\* variant: both p[i][j] and p[j][i] are added for every pair
RECURSIVE interaction_both_ways(_, _, _)
interaction_both_ways(p, i, S) ==
    IF S = {} THEN 0
    ELSE LET j == CHOOSE x \in S : TRUE
         IN  p[i][j] + p[j][i] + interaction_both_ways(p, i, S \ {j})

\* for j in S: acc += p[i][j]
RECURSIVE interaction(_, _, _)
interaction(p, i, S) ==
    IF S = {} THEN 0
    ELSE LET j == CHOOSE x \in S : TRUE
         IN  p[i][j] + interaction(p, i, S \ {j})

\* ------------------------------------------------------------ instances
Indices(n) == 0..(n - 1)

Init ==
    /\ \E n \in 0..MaxN : weights \in [Indices(n) -> 0..MaxWeight]
    /\ \E m \in 0..MaxN : profits \in [Indices(m) -> [Indices(m) -> ProfitValues]]
    /\ capacity \in 0..MaxCapacity
    /\ pc = "test_case"
    /\ k = 0
    /\ r = 0
    /\ dp = <<>>
    /\ tracker = <<>>
    /\ dp2 = <<>>
    /\ selected_items = <<>>
    /\ dp3 = <<>>
    /\ item_inclusion = <<>>
    /\ result = <<>>
    /\ val = [kind |-> "none", candidate |-> {}, order |-> <<>>,
              profit |-> None, items |-> {}]

\* position after cell (kk, rr) of "for k in range(1, n + 1): for r in range(capacity + 1)"
next_cell(kk, rr, loop, after) ==
    IF rr < capacity THEN [pc |-> loop, k |-> kk, r |-> rr + 1]
    ELSE IF kk < len(weights) THEN [pc |-> loop, k |-> kk + 1, r |-> 0]
    ELSE [pc |-> after, k |-> kk, r |-> rr]

\* ----------------------------------------------------- classical_dp_qkp
\* "if profit_with_k > dp[k][r]"
classical_takes(profit_with_k, incumbent) == profit_with_k > incumbent

\* max(dp[n]) and dp[n].index(max_profit): the first index of the maximum
classical_best(row) ==
    CHOOSE c \in DOMAIN row :
        /\ \A j \in DOMAIN row : row[j] <= row[c]
        /\ \A j \in DOMAIN row : j < c => row[j] < row[c]

\* dp = [[0] * (capacity + 1) ...], tracker = [[set() ...] ...]
classical_alloc ==
    /\ pc = "test_case"
    /\ dp' = [i \in 0..len(weights) |-> [c \in 0..capacity |-> 0]]
    /\ tracker' = [i \in 0..len(weights) |-> [c \in 0..capacity |-> {}]]
    /\ IF len(weights) >= 1
       THEN pc' = "classical_loop" /\ k' = 1 /\ r' = 0
       ELSE pc' = "classical_return" /\ k' = 0 /\ r' = 0
    /\ UNCHANGED <<weights, profits, capacity, dp2, selected_items,
                   dp3, item_inclusion, result, val>>

\* one iteration of the inner loop body, lines 26-48
classical_cell ==
    /\ pc = "classical_loop"
    /\ LET item == k - 1
           fits == r >= weights[item]
           prev_r == r - weights[item]
           raises == fits /\ item \notin DOMAIN profits
           profit_with_k == dp[k - 1][prev_r] + profits[item][item]
                            + interaction(profits, item, tracker[k - 1][prev_r])
           take == fits /\ ~raises /\ classical_takes(profit_with_k, dp[k - 1][r])
           nxt == next_cell(k, r, "classical_loop", "classical_return")
       IN  /\ dp' = [dp EXCEPT ![k][r] =
                        IF take THEN profit_with_k ELSE dp[k - 1][r]]
           /\ tracker' = [tracker EXCEPT ![k][r] =
                        IF take THEN tracker[k - 1][prev_r] \cup {item}
                        ELSE tracker[k - 1][r]]
           /\ IF raises
              THEN pc' = "IndexError" /\ UNCHANGED <<k, r>>
              ELSE pc' = nxt.pc /\ k' = nxt.k /\ r' = nxt.r
    /\ UNCHANGED <<weights, profits, capacity, dp2, selected_items,
                   dp3, item_inclusion, result, val>>

\* lines 50-55
classical_return ==
    /\ pc = "classical_return"
    /\ LET n == len(weights)
           max_capacity == classical_best(dp[n])
       IN  result' = result @@ ("classical_dp_qkp" :>
                        [items |-> tracker[n][max_capacity],
                         profit |-> Num(dp[n][max_capacity])])
    /\ pc' = "dp_heuristic_algo2"
    /\ UNCHANGED <<weights, profits, capacity, k, r, dp, tracker, dp2,
                   selected_items, dp3, item_inclusion, val>>

\* ------------------------------------------- tie-breaking of the heuristics
\* variant: every feasible include candidate replaces the incumbent
heuristic_takes_always(current_profit, prev_items, incumbent, incumbent_items) ==
    TRUE

\* variant: no tie-breaking, the incumbent is kept on equal profit
heuristic_takes_strict(current_profit, prev_items, incumbent, incumbent_items) ==
    Gt(current_profit, incumbent)

\* "current_profit > dp[..] or (current_profit == dp[..] and
\*  len(prev witness) + 1 > len(incumbent witness))"
heuristic_takes(current_profit, prev_items, incumbent, incumbent_items) ==
    \/ Gt(current_profit, incumbent)
    \/ /\ current_profit = incumbent
       /\ Cardinality(prev_items) + 1 > Cardinality(incumbent_items)

\* variant: the base case assignment is missing
initial_value_no_base(i, c) == NegInf

\* a cell of np.full(..., -np.inf) after the base case "dp[0][0] = 0" / "dp[0] = 0"
initial_value(i, c) == IF i = 0 /\ c = 0 THEN Num(0) ELSE NegInf

\* np.argmax(row): the first index of the maximum
argmax(row) ==
    CHOOSE c \in DOMAIN row :
        /\ \A j \in DOMAIN row : ~Gt(row[j], row[c])
        /\ \A j \in DOMAIN row : j < c => Gt(row[c], row[j])

\* --------------------------------------------------- dp_heuristic_algo2
\* np.full((n + 1, capacity + 1), -np.inf); dp[0][0] = 0
algo2_alloc ==
    /\ pc = "dp_heuristic_algo2"
    /\ dp2' = [i \in 0..len(weights) |->
                 [c \in 0..capacity |-> initial_value(i, c)]]
    /\ selected_items' = [i \in 0..len(weights) |-> [c \in 0..capacity |-> {}]]
    /\ IF len(weights) >= 1
       THEN pc' = "algo2_loop" /\ k' = 1 /\ r' = 0
       ELSE pc' = "algo2_return" /\ k' = 0 /\ r' = 0
    /\ UNCHANGED <<weights, profits, capacity, dp, tracker,
                   dp3, item_inclusion, result, val>>

\* one iteration of the inner loop body, lines 77-97
algo2_cell ==
    /\ pc = "algo2_loop"
    /\ LET item == k - 1
           fits == r >= weights[item]
           prev_r == r - weights[item]
           prev_profit == dp2[k - 1][prev_r]
           reads == fits /\ prev_profit # NegInf
           raises == reads /\ item \notin DOMAIN profits
           prev_items == selected_items[k - 1][prev_r]
           current_profit == Num(prev_profit.v + profits[item][item]
                                 + interaction(profits, item, prev_items))
           take == reads /\ ~raises
                   /\ heuristic_takes(current_profit, prev_items,
                                      dp2[k - 1][r], selected_items[k - 1][r])
           nxt == next_cell(k, r, "algo2_loop", "algo2_return")
       IN  /\ dp2' = [dp2 EXCEPT ![k][r] =
                        IF take THEN current_profit ELSE dp2[k - 1][r]]
           /\ selected_items' = [selected_items EXCEPT ![k][r] =
                        IF take THEN prev_items \cup {item}
                        ELSE selected_items[k - 1][r]]
           /\ IF raises
              THEN pc' = "IndexError" /\ UNCHANGED <<k, r>>
              ELSE pc' = nxt.pc /\ k' = nxt.k /\ r' = nxt.r
    /\ UNCHANGED <<weights, profits, capacity, dp, tracker,
                   dp3, item_inclusion, result, val>>

\* lines 99-102
algo2_return ==
    /\ pc = "algo2_return"
    /\ LET n == len(weights)
           best_r == argmax(dp2[n])
       IN  result' = result @@ ("dp_heuristic_algo2" :>
                        [items |-> selected_items[n][best_r],
                         profit |-> dp2[n][best_r]])
    /\ pc' = "dp_heuristic_algo3"
    /\ UNCHANGED <<weights, profits, capacity, k, r, dp, tracker, dp2,
                   selected_items, dp3, item_inclusion, val>>

\* --------------------------------------------------- dp_heuristic_algo3
\* variant: the pass runs forward, range(weights[kk], capacity + 1)
pass_cells_forward(kk) ==
    [i \in 1..(capacity - weights[kk] + 1) |-> weights[kk] + (i - 1)]

\* the cells "range(capacity, weights[kk] - 1, -1)" visits, in order
pass_cells(kk) ==
    [i \in 1..(capacity - weights[kk] + 1) |-> capacity - (i - 1)]

\* variant: the outer loop stops one item early, range(n - 1)
RECURSIVE next_pass_short(_)
next_pass_short(kk) ==
    IF kk >= len(weights) - 1 THEN len(weights)
    ELSE IF pass_cells(kk) # <<>> THEN kk
    ELSE next_pass_short(kk + 1)

\* first item kk' >= kk whose pass is not empty, or n when there is none
RECURSIVE next_pass(_)
next_pass(kk) ==
    IF kk >= len(weights) THEN len(weights)
    ELSE IF pass_cells(kk) # <<>> THEN kk
    ELSE next_pass(kk + 1)

\* position at the start of the first non-empty pass from item kk on
enter_pass(kk) ==
    IF next_pass(kk) < len(weights)
    THEN [pc |-> "algo3_loop", k |-> next_pass(kk), r |-> pass_cells(next_pass(kk))[1]]
    ELSE [pc |-> "algo3_return", k |-> 0, r |-> 0]

\* position after cell (kk, rr) of "for k in range(n): for r in range(...)"
next_cell3(kk, rr) ==
    LET cells == pass_cells(kk)
        i == CHOOSE j \in DOMAIN cells : cells[j] = rr
    IN  IF i < Len(cells) THEN [pc |-> "algo3_loop", k |-> kk, r |-> cells[i + 1]]
        ELSE enter_pass(kk + 1)

\* np.full(capacity + 1, -np.inf); dp[0] = 0
algo3_alloc ==
    /\ pc = "dp_heuristic_algo3"
    /\ dp3' = [c \in 0..capacity |-> initial_value(0, c)]
    /\ item_inclusion' = [c \in 0..capacity |-> {}]
    /\ LET nxt == enter_pass(0)
       IN  pc' = nxt.pc /\ k' = nxt.k /\ r' = nxt.r
    /\ UNCHANGED <<weights, profits, capacity, dp, tracker, dp2,
                   selected_items, result, val>>

\* one iteration of the inner loop body, lines 124-137
algo3_cell ==
    /\ pc = "algo3_loop"
    /\ LET prev_r == r - weights[k]
           reads == dp3[prev_r] # NegInf
           raises == reads /\ k \notin DOMAIN profits
           prev_items == item_inclusion[prev_r]
           current_profit == Num(dp3[prev_r].v + profits[k][k]
                                 + interaction(profits, k, prev_items))
           take == reads /\ ~raises
                   /\ heuristic_takes(current_profit, prev_items,
                                      dp3[r], item_inclusion[r])
           nxt == next_cell3(k, r)
       IN  /\ dp3' = IF take THEN [dp3 EXCEPT ![r] = current_profit] ELSE dp3
           /\ item_inclusion' =
                 IF take THEN [item_inclusion EXCEPT ![r] = prev_items \cup {k}]
                 ELSE item_inclusion
           /\ IF raises
              THEN pc' = "IndexError" /\ UNCHANGED <<k, r>>
              ELSE pc' = nxt.pc /\ k' = nxt.k /\ r' = nxt.r
    /\ UNCHANGED <<weights, profits, capacity, dp, tracker, dp2,
                   selected_items, result, val>>

\* lines 139-142
algo3_return ==
    /\ pc = "algo3_return"
    /\ LET best_r == argmax(dp3)
       IN  result' = result @@ ("dp_heuristic_algo3" :>
                        [items |-> item_inclusion[best_r],
                         profit |-> dp3[best_r]])
    /\ pc' = "done"
    /\ UNCHANGED <<weights, profits, capacity, k, r, dp, tracker, dp2,
                   selected_items, dp3, item_inclusion, val>>

Next ==
    \/ classical_alloc \/ classical_cell \/ classical_return
    \/ algo2_alloc \/ algo2_cell \/ algo2_return
    \/ algo3_alloc \/ algo3_cell \/ algo3_return

\* ---------------------------------------------- compute_profit_and_items
\* the enumerations of a set: sequences over S without repeats
Orders(S) ==
    {o \in [1..Cardinality(S) -> S] : \A a, b \in DOMAIN o : o[a] = o[b] => a = b}

\* itertools.combinations(order, 2): the pairs in enumeration order
combinations(order) ==
    {<<order[ab[1]], order[ab[2]]>> :
        ab \in {x \in (DOMAIN order) \X (DOMAIN order) : x[1] < x[2]}}

RECURSIVE sum_pairs(_, _)
sum_pairs(p, pairs) ==
    IF pairs = {} THEN 0
    ELSE LET ij == CHOOSE x \in pairs : TRUE
         IN  p[ij[1]][ij[2]] + sum_pairs(p, pairs \ {ij})

RECURSIVE sum_diagonal(_, _)
sum_diagonal(p, S) ==
    IF S = {} THEN 0
    ELSE LET i == CHOOSE x \in S : TRUE
         IN  p[i][i] + sum_diagonal(p, S \ {i})

\* variant: a set that fills the capacity exactly is rejected
overweight_at_capacity(total, cap) == total >= cap

\* "if total_weight > capacity: return None, set()"
overweight(total, cap) == total > cap

\* the value compute_profit_and_items returns for a candidate set enumerated as order
compute_profit_and_items(w, p, cap, order) ==
    LET selected_indices == {order[a] : a \in DOMAIN order}
    IN  IF overweight(total_weight(w, selected_indices), cap)
        THEN [kind |-> "returned", profit |-> None, items |-> {}]
        ELSE IF ~(selected_indices \subseteq DOMAIN p)
        THEN [kind |-> "IndexError", profit |-> None, items |-> {}]
        ELSE [kind |-> "returned",
              profit |-> Num(sum_diagonal(p, selected_indices)
                             + sum_pairs(p, combinations(order))),
              items |-> selected_indices]

\* src/tests.py:202, for any candidate set of items
validate ==
    /\ pc = "test_case"
    /\ \E C \in SUBSET DOMAIN weights : \E order \in Orders(C) :
         LET out == compute_profit_and_items(weights, profits, capacity, order)
         IN  val' = [kind |-> out.kind, candidate |-> C, order |-> order,
                     profit |-> out.profit, items |-> out.items]
    /\ pc' = "validated"
    /\ UNCHANGED <<weights, profits, capacity, k, r, dp, tracker, dp2,
                   selected_items, dp3, item_inclusion, result>>

NextValidator == validate

SpecValidator == Init /\ [][NextValidator]_vars

Spec == Init /\ [][Next]_vars

\* ====================================================================
\* Properties
\* ====================================================================
Engines == {"classical_dp_qkp", "dp_heuristic_algo2", "dp_heuristic_algo3"}

\* the number of weights equals the dimension of the profit matrix
WellFormed == len(weights) = len(profits)

Symmetric == \A i \in DOMAIN profits : \A j \in DOMAIN profits :
                profits[i][j] = profits[j][i]

EmptySolution == [items |-> {}, profit |-> Num(0)]

\* C1: for a symmetric instance, whatever an engine returns as (S, v), the
\* validator accepts S (total weight <= capacity, profit not None) and its
\* profit equals v, for every enumeration of S.
C1_EngineValidatorAgreement ==
    (WellFormed /\ Symmetric) =>
        \A e \in DOMAIN result : \A o \in Orders(result[e].items) :
            LET out == compute_profit_and_items(weights, profits, capacity, o)
            IN  /\ out.kind = "returned"
                /\ out.profit # None
                /\ out.profit = result[e].profit
                /\ out.items = result[e].items
                /\ total_weight(weights, result[e].items) <= capacity

\* all three engines returned a two-item set whose pair interacts
C1_Witness ==
    /\ pc = "done"
    /\ WellFormed /\ Symmetric
    /\ \A e \in Engines : Cardinality(result[e].items) >= 2
    /\ \E i \in DOMAIN profits : \E j \in DOMAIN profits :
          i # j /\ profits[i][j] # 0

\* C2 as stated: with capacity = 0 or n = 0 every engine returns the empty
\* set and profit 0.
C2_EmptyInstance ==
    (WellFormed /\ (capacity = 0 \/ len(weights) = 0)) =>
        \A e \in DOMAIN result : result[e] = EmptySolution

\* C2 amended: with n = 0, or with capacity = 0 and every weight >= 1, every
\* engine returns the empty set and profit 0.
C2_EmptyInstanceNoZeroWeight ==
    (\/ len(weights) = 0
     \/ (capacity = 0 /\ \A i \in DOMAIN weights : weights[i] >= 1)) =>
        \A e \in DOMAIN result : result[e] = EmptySolution

\* capacity 0, items of positive weight and positive self-profit, all returned
C2_Witness ==
    /\ pc = "done"
    /\ capacity = 0
    /\ WellFormed
    /\ len(weights) >= 2
    /\ \A i \in DOMAIN weights : weights[i] >= 1 /\ profits[i][i] > 0
    /\ \A e \in Engines : result[e] = EmptySolution

\* the validator's profit of a set under a symmetric matrix
SetProfit(S) ==
    compute_profit_and_items(weights, profits, capacity,
                             CHOOSE o \in Orders(S) : TRUE).profit.v

FeasibleSets ==
    {S \in SUBSET DOMAIN weights : total_weight(weights, S) <= capacity}

\* C3: for a symmetric instance classical_dp_qkp returns the maximum validator
\* profit over all feasible subsets, and its set attains that maximum.
C3_ClassicalOptimal ==
    (WellFormed /\ Symmetric /\ "classical_dp_qkp" \in DOMAIN result) =>
        LET out == result["classical_dp_qkp"]
        IN  /\ out.items \in FeasibleSets
            /\ \A S \in FeasibleSets : SetProfit(S) <= out.profit.v
            /\ SetProfit(out.items) = out.profit.v

\* C4: when the number of weights differs from the matrix dimension, no engine
\* allocates a table or returns a result; the call ends in a validation error.
C4_DimensionMismatchRejected ==
    ~WellFormed =>
        /\ DOMAIN dp = {} /\ DOMAIN tracker = {}
        /\ DOMAIN dp2 = {} /\ DOMAIN selected_items = {}
        /\ DOMAIN dp3 = {} /\ DOMAIN item_inclusion = {}
        /\ DOMAIN result = {}
        /\ pc \in {"test_case", "ValueError"}

\* unordered pairs of a set, each written once as <<i, j>> with i < j
UnorderedPairs(S) == {ij \in S \X S : ij[1] < ij[2]}

\* one matrix entry per unordered pair: p[i][j] where d says so, else p[j][i]
Oriented(S, d) ==
    {IF d[ij] THEN ij ELSE <<ij[2], ij[1]>> : ij \in UnorderedPairs(S)}

\* C5: the validator returns (None, {}) exactly when the candidate's weight is
\* strictly above the capacity; otherwise it returns the candidate unchanged
\* and the sum of its diagonal entries plus exactly one matrix entry for each
\* unordered pair.
C5_ValidatorContract ==
    val.kind = "returned" =>
        LET C == val.candidate
            heavy == total_weight(weights, C) > capacity
        IN  /\ (val.profit = None /\ val.items = {}) <=> heavy
            /\ ~heavy =>
                 /\ val.items = C
                 /\ \E d \in [UnorderedPairs(C) -> BOOLEAN] :
                       val.profit = Num(sum_diagonal(profits, C)
                                        + sum_pairs(profits, Oriented(C, d)))
                 /\ Symmetric =>
                       val.profit = Num(sum_diagonal(profits, C)
                                        + sum_pairs(profits, UnorderedPairs(C)))

\* a two-item candidate that fills the capacity exactly was accepted
C5_Witness ==
    /\ pc = "validated"
    /\ val.kind = "returned"
    /\ Cardinality(val.candidate) >= 2
    /\ total_weight(weights, val.candidate) = capacity
    /\ capacity >= 1
    /\ val.profit # None
    /\ \E ij \in UnorderedPairs(val.candidate) : profits[ij[1]][ij[2]] # 0

\* C6: the validator's profit of a feasible candidate set is the same for
\* every enumeration of the set, for asymmetric matrices too.
C6_OrderIndependent ==
    (val.kind = "returned" /\ val.profit # None) =>
        \A o \in Orders(val.candidate) :
            compute_profit_and_items(weights, profits, capacity, o).profit
                = val.profit

Allocated(table) == DOMAIN table # {}

\* rows of dp_heuristic_algo2's table whose cell for capacity 0 is computed
RowsDone2 ==
    IF pc = "algo2_loop" THEN (IF r > 0 THEN k ELSE k - 1)
    ELSE IF pc \in {"algo2_return", "dp_heuristic_algo3", "algo3_loop",
                    "algo3_return", "done"} THEN len(weights)
    ELSE 0

\* C7: the heuristics never return -inf: the cell for capacity 0 is a number
\* >= 0 in every computed row of algo2 and at every step of algo3, and the
\* returned profit is a number >= 0.
C7_NoSentinelLeak ==
    /\ \A e \in DOMAIN result \cap {"dp_heuristic_algo2", "dp_heuristic_algo3"} :
          result[e].profit.tag = "num" /\ result[e].profit.v >= 0
    /\ Allocated(dp2) =>
          \A i \in 0..RowsDone2 : dp2[i][0].tag = "num" /\ dp2[i][0].v >= 0
    /\ Allocated(dp3) => dp3[0].tag = "num" /\ dp3[0].v >= 0

\* both heuristics returned on an instance with a zero-weight item of negative
\* self-profit and a negative interaction
C7_Witness ==
    /\ pc = "done"
    /\ WellFormed
    /\ len(weights) >= 2
    /\ \E i \in DOMAIN weights : weights[i] = 0 /\ profits[i][i] < 0
    /\ \E i \in DOMAIN profits : \E j \in DOMAIN profits : i > j /\ profits[i][j] < 0
    /\ result["dp_heuristic_algo3"].profit.tag = "num"

\* the include candidate of a cell: value and witness
Include(prev_value, prev_items, item) ==
    [profit |-> Num(prev_value.v + profits[item][item]
                    + interaction(profits, item, prev_items)),
     items |-> prev_items \cup {item}]

\* C8 for one cell update: on equal profit the larger witness is kept, the
\* include witness replacing the incumbent iff it is strictly larger.
TieBreak(inc, old_value, old_items, new_value, new_items) ==
    inc.profit = old_value =>
        /\ new_value = old_value
        /\ IF Cardinality(inc.items) > Cardinality(old_items)
           THEN new_items = inc.items
           ELSE new_items = old_items

\* C8: in dp_heuristic_algo2 and dp_heuristic_algo3, at every cell update whose
\* include candidate ties with the incumbent, the witness after the update is
\* the include witness iff it is strictly larger, otherwise value and witness
\* stay the incumbent's.
C8_TieBreakLargerWitness ==
    [][/\ (/\ pc = "algo2_loop"
           /\ pc' # "IndexError"
           /\ r >= weights[k - 1]
           /\ dp2[k - 1][r - weights[k - 1]] # NegInf) =>
              TieBreak(Include(dp2[k - 1][r - weights[k - 1]],
                               selected_items[k - 1][r - weights[k - 1]], k - 1),
                       dp2[k - 1][r], selected_items[k - 1][r],
                       dp2'[k][r], selected_items'[k][r])
       /\ (/\ pc = "algo3_loop"
           /\ pc' # "IndexError"
           /\ dp3[r - weights[k]] # NegInf) =>
              TieBreak(Include(dp3[r - weights[k]],
                               item_inclusion[r - weights[k]], k),
                       dp3[r], item_inclusion[r],
                       dp3'[r], item_inclusion'[r])
      ]_vars

\* a cell of each heuristic took the include witness on a tie with a feasible
\* incumbent
C8_Witness ==
    /\ pc = "done"
    /\ WellFormed
    /\ len(weights) >= 2
    /\ \E c \in 0..capacity :
          /\ dp2[1][c] # NegInf
          /\ dp2[2][c] = dp2[1][c]
          /\ 1 \in selected_items[2][c]
    /\ \E c \in 0..capacity :
          /\ dp3[c] = dp2[1][c]
          /\ dp3[c] # NegInf
          /\ 1 \in item_inclusion[c]

\* the profit the engines attribute to a witness: every item's self-profit and,
\* for each pair, the entry p[later][earlier], each once
EngineProfit(S) ==
    sum_diagonal(profits, S)
    + sum_pairs(profits, {ij \in S \X S : ij[1] > ij[2]})

\* C9, state part: in the pass of item k the cells not yet visited hold no k,
\* in particular the cell read for the include candidate; every feasible cell
\* holds a witness of items processed so far, of total weight exactly the
\* cell's capacity, and its value is the witness's profit.
SingleUse ==
    pc \in {"algo3_loop", "algo3_return"} =>
        /\ pc = "algo3_loop" =>
              /\ weights[k] <= r /\ r <= capacity
              /\ k \notin item_inclusion[r - weights[k]]
              /\ \A c \in 0..r : item_inclusion[c] \subseteq 0..(k - 1)
        /\ \A c \in 0..capacity :
              dp3[c] # NegInf =>
                 /\ item_inclusion[c] \subseteq
                       (IF pc = "algo3_loop" THEN 0..k ELSE DOMAIN weights)
                 /\ total_weight(weights, item_inclusion[c]) = c
                 /\ dp3[c] = Num(EngineProfit(item_inclusion[c]))

\* C9, step part: a pass starts at capacity, goes strictly down and ends at
\* weights[k].
Descending ==
    pc = "algo3_loop" =>
        /\ (pc' = "algo3_loop" /\ k' = k) => (r' < r /\ r' >= weights[k])
        /\ (pc' = "algo3_loop" /\ k' # k) => (k' > k /\ r = weights[k] /\ r' = capacity)
        /\ pc' = "algo3_return" => r = weights[k]

\* C9: dp_heuristic_algo3 visits the capacities of a pass in strictly
\* descending order from capacity down to weights[k], never reads a witness
\* that already contains k, and so every feasible cell r always holds a
\* witness of processed items with total weight r whose profit, each item and
\* pair counted once, is dp[r].
C9_SingleUsePerPass == []SingleUse /\ [][Descending]_vars

\* mid-pass of the second item: the top cell already holds both items while
\* lower cells are still to be visited
C9_Witness ==
    /\ pc = "algo3_loop"
    /\ WellFormed
    /\ k = 1
    /\ r < capacity
    /\ weights[1] >= 1
    /\ item_inclusion[capacity] = {0, 1}
    /\ profits[1][0] # 0

\* C10: the array of dp_heuristic_algo3 is row k+1 of dp_heuristic_algo2's
\* table once the pass of item k is over (mid-pass: row k+1 on the cells
\* already visited, row k below), values and witnesses, and both engines
\* return the same set and profit.
C10_RollingRefinesTable ==
    /\ pc = "algo3_loop" =>
          \A c \in 0..capacity :
              /\ c > r => /\ dp3[c] = dp2[k + 1][c]
                          /\ item_inclusion[c] = selected_items[k + 1][c]
              /\ c <= r => /\ dp3[c] = dp2[k][c]
                           /\ item_inclusion[c] = selected_items[k][c]
    /\ pc \in {"algo3_return", "done"} =>
          /\ dp3 = dp2[len(weights)]
          /\ item_inclusion = selected_items[len(weights)]
    /\ pc = "done" =>
          result["dp_heuristic_algo3"] = result["dp_heuristic_algo2"]

\* both heuristics returned a two-item set from tables with several feasible
\* cells
C10_Witness ==
    /\ pc = "done"
    /\ WellFormed
    /\ Cardinality(result["dp_heuristic_algo3"].items) >= 2
    /\ Cardinality({c \in 0..capacity : dp3[c] # NegInf}) >= 3
    /\ \E c \in 0..capacity : dp2[1][c] # dp2[2][c]

====
